---- MODULE Spec2Model ----
(***************************************************************************)
(* rail: print the last N lines of a text file and optionally follow it.   *)
(* Model of src/main.rs: main (existence check, initial tail, retry),      *)
(* tail_file (bounded line buffer) and follow_file (polling cursor).       *)
(*                                                                         *)
(* Three specifications share the variables:                               *)
(*   SpecTail    tail_file read line by line on one file                   *)
(*   SpecMain    main from the existence check to the hand-over to follow  *)
(*   SpecFollow  follow_file against a file system that changes under it   *)
(***************************************************************************)
EXTENDS Integers, Sequences, FiniteSets, TLC

(***************************************************************************)
(* Bytes.  LF and CR are the two bytes the program tests for; "a" stands   *)
(* for any other byte of valid text and BAD for a byte that is not valid   *)
(* UTF-8 (read_line fails on it).                                          *)
(***************************************************************************)
LF == "LF"
CR == "CR"
BAD == "BAD"
TextBytes == {"a", CR, LF}
AllBytes == TextBytes \cup {BAD}

\* Bounds of the model.
MaxFileLen == 4
MaxLines == 3
MaxEnvOps == 2
MaxOut == 5

VARIABLES
  fs_path,        \* inode the path names; 0 when no file is there
  fs_data,        \* inode -> bytes of that file
  fs_mtime,       \* modification time of the file at the path
  clock,          \* number of changes made to the file system so far
  num_lines,      \* main: -n
  retry_mode,     \* main: --retry
  follow_mode,    \* main: -f
  pc,             \* position of the program
  out,            \* what was written to standard output, piece by piece
  file,           \* inode the open handle refers to; 0 before open
  rd,             \* tail_file: offset of the BufReader
  lines,          \* tail_file: the line buffer
  pos,            \* follow_file: the cursor
  last_modified,  \* follow_file: last-seen modification time
  hist            \* record of what happened, for stating the properties

fsVars == <<fs_path, fs_data, fs_mtime, clock>>
argVars == <<num_lines, retry_mode, follow_mode>>
tailVars == <<rd, lines>>
followVars == <<pos, last_modified>>
vars == <<fs_path, fs_data, fs_mtime, clock, num_lines, retry_mode,
          follow_mode, pc, out, rd, lines, file, pos, last_modified, hist>>

----------------------------------------------------------------------------
(* Sequences *)

RECURSIVE SeqsUpTo(_, _)
SeqsUpTo(S, n) ==
  IF n = 0 THEN {<<>>}
  ELSE LET shorter == SeqsUpTo(S, n - 1)
       IN shorter \cup {Append(s, b) : s \in {t \in shorter : Len(t) = n - 1}, b \in S}

Min(a, b) == IF a < b THEN a ELSE b

EndsWith(s, suffix) ==
  /\ Len(s) >= Len(suffix)
  /\ SubSeq(s, Len(s) - Len(suffix) + 1, Len(s)) = suffix

Pop(s) == SubSeq(s, 1, Len(s) - 1)

----------------------------------------------------------------------------
\* Inodes.  At most two files are alive at a time: the one at the path and
\* the one the program has open; a third number is free for the next file.
Inodes == {1, 2, 3}
NoData == [i \in Inodes |-> <<>>]
FreeInode(path, handle) == CHOOSE i \in Inodes : i # path /\ i # handle

\* the storage of every file that has neither a name nor an open handle is released
Release(data, path, handle) ==
  [i \in Inodes |-> IF i = path \/ i = handle THEN data[i] ELSE <<>>]

----------------------------------------------------------------------------
(* BufRead::read_line on the bytes `data` of a file, from offset `off`:    *)
(* the bytes up to and including the next LF, or up to end of file.        *)

LineEnd(data, off) ==
  LET lfs == {i \in (off + 1)..Len(data) : data[i] = LF}
  IN IF lfs = {} THEN Len(data)
     ELSE CHOOSE i \in lfs : \A j \in lfs : i <= j

RawLine(data, off) ==
  IF off >= Len(data) THEN <<>> ELSE SubSeq(data, off + 1, LineEnd(data, off))

\* read_line returns Err when the bytes read are not valid UTF-8
ReadFails(data, off) == \E i \in 1..Len(RawLine(data, off)) : RawLine(data, off)[i] = BAD

----------------------------------------------------------------------------
(* tail_file: line-ending handling and the bounded buffer                  *)

NormalizeTail(line) ==
  IF EndsWith(line, <<CR, LF>>) THEN Append(Pop(Pop(line)), LF)
  ELSE IF EndsWith(line, <<LF>>) THEN line
  ELSE Append(line, LF)

\* a buffer that drops the line just read instead of the oldest one
PushLineDropNewest(buf, line, n) ==
  LET pushed == Append(buf, line)
  IN IF Len(pushed) > n THEN Pop(pushed) ELSE pushed

\* the buffer of tail_file never evicting
PushLineNoEvict(buf, line, n) == Append(buf, line)

PushLine(buf, line, n) ==
  LET pushed == Append(buf, line)
  IN IF Len(pushed) > n THEN Tail(pushed) ELSE pushed

\* the loop of tail_file run to its end on `data`: Ok(lines) or Err
RECURSIVE TailLoop(_, _, _, _)
TailLoop(data, off, buf, n) ==
  IF ReadFails(data, off) THEN [ok |-> FALSE, lines |-> <<>>]
  ELSE IF RawLine(data, off) = <<>> THEN [ok |-> TRUE, lines |-> buf]
  ELSE TailLoop(data, off + Len(RawLine(data, off)),
                PushLine(buf, NormalizeTail(RawLine(data, off)), n), n)

----------------------------------------------------------------------------
(* What the properties need to remember of a run. *)

HistInit ==
  [tail_failed |-> FALSE,   \* main: tail_file returned Err
   tail_printed |-> FALSE,  \* main: tail_file returned Ok (its buffer is printed)
   absent_at_start |-> FALSE, \* main: the first existence check found no file
   err |-> "none",          \* follow_file: the call that made it return Err
   append_only |-> TRUE,    \* the file was only appended to (never truncated,
                            \* replaced or removed) since the program started
   noticed |-> FALSE,       \* follow_file: a rotation or truncation notice was
                            \* printed and the path names the same file since
   start |-> 0,             \* follow_file: the cursor after the seek to the end
   last_size |-> -1,        \* follow_file: size seen by the previous metadata query
   shrink_pending |-> FALSE, \* follow_file: a poll saw the size decrease and
                            \* no notice was printed since
   shrinks |-> 0,           \* times the file was truncated, replaced or removed
   tail_size |-> 0,         \* main: size of the file when tail_file read it
   kept |-> 0,              \* follow_file: leading bytes of the file that were
                            \* there at the seek to the end and still are
   reemitted |-> FALSE,     \* follow_file: one of those bytes was printed
   slept |-> 0,             \* follow_file: milliseconds slept in its last step
   rotated_cycle |-> FALSE] \* follow_file: this iteration took the rotation branch

----------------------------------------------------------------------------
(* SpecTail: tail_file, one read_line per step, on a file nobody changes.  *)

TailOpen ==
  /\ pc = "t_open"
  /\ IF fs_path = 0
     THEN pc' = "t_err" /\ UNCHANGED file
     ELSE pc' = "t_read" /\ file' = fs_path
  /\ rd' = 0
  /\ lines' = <<>>
  /\ UNCHANGED <<fsVars, argVars, out, followVars, hist>>

\* tail_file printing each line as soon as it is read
TailReadLinePrinting ==
  /\ pc = "t_read"
  /\ LET data == fs_data[file]
         raw == RawLine(data, rd)
     IN IF ReadFails(data, rd)
        THEN pc' = "t_err" /\ UNCHANGED <<rd, lines, out>>
        ELSE IF Len(raw) > 0
        THEN /\ lines' = <<>>
             /\ out' = Append(out, NormalizeTail(raw))
             /\ rd' = rd + Len(raw)
             /\ pc' = "t_read"
        ELSE pc' = "t_print" /\ UNCHANGED <<rd, lines, out>>
  /\ UNCHANGED <<fsVars, argVars, file, followVars, hist>>

TailReadLine ==
  /\ pc = "t_read"
  /\ LET data == fs_data[file]
         raw == RawLine(data, rd)
     IN IF ReadFails(data, rd)
        THEN pc' = "t_err" /\ UNCHANGED <<rd, lines>>
        ELSE IF Len(raw) > 0
        THEN /\ lines' = PushLine(lines, NormalizeTail(raw), num_lines)
             /\ rd' = rd + Len(raw)
             /\ pc' = "t_read"
        ELSE pc' = "t_print" /\ UNCHANGED <<rd, lines>>
  /\ UNCHANGED <<fsVars, argVars, out, file, followVars, hist>>

TailPrint ==
  /\ pc = "t_print"
  /\ out' = out \o lines
  /\ pc' = "t_done"
  /\ UNCHANGED <<fsVars, argVars, file, tailVars, followVars, hist>>

InitTail ==
  /\ fs_path \in {0, 1}
  /\ fs_data \in {[NoData EXCEPT ![1] = d] : d \in SeqsUpTo(AllBytes, MaxFileLen)}
  /\ fs_mtime = 0
  /\ clock = 0
  /\ num_lines \in 0..MaxLines
  /\ retry_mode = FALSE
  /\ follow_mode = FALSE
  /\ pc = "t_open"
  /\ out = <<>>
  /\ file = 0
  /\ rd = 0
  /\ lines = <<>>
  /\ pos = 0
  /\ last_modified = 0
  /\ hist = HistInit

NextTail == TailOpen \/ TailReadLine \/ TailPrint

SpecTail == InitTail /\ [][NextTail]_vars

----------------------------------------------------------------------------
(* The file system around the program: another process writes the file.    *)

\* files another process may put at the path
NewFiles == {<<>>, <<"a", LF>>, <<"a", CR, LF, "a">>, <<"a", LF, BAD>>}

\* what another process appends in one write
Chunks == {<<"a">>, <<CR>>, <<LF>>, <<"a", LF>>}

NewFileHist == [hist EXCEPT !.append_only = FALSE, !.noticed = FALSE, !.kept = 0]
ShrunkHist(h) == [h EXCEPT !.shrinks = @ + 1]

EnvCreate ==
  /\ clock < MaxEnvOps
  /\ fs_path = 0
  /\ \E d \in NewFiles :
       LET new == FreeInode(fs_path, file)
       IN /\ fs_data' = [fs_data EXCEPT ![new] = d]
          /\ fs_path' = new
  /\ clock' = clock + 1
  /\ fs_mtime' = clock + 1
  /\ hist' = NewFileHist
  /\ UNCHANGED <<argVars, pc, out, file, tailVars, followVars>>

EnvRemove ==
  /\ clock < MaxEnvOps
  /\ fs_path # 0
  /\ fs_path' = 0
  /\ fs_data' = Release(fs_data, 0, file)
  /\ clock' = clock + 1
  /\ hist' = ShrunkHist(NewFileHist)
  /\ UNCHANGED <<fs_mtime, argVars, pc, out, file, tailVars, followVars>>

\* a new file is renamed over the path; the old one lives on for whoever has it open
EnvReplace ==
  /\ clock < MaxEnvOps
  /\ fs_path # 0
  /\ \E d \in NewFiles :
       LET new == FreeInode(fs_path, file)
       IN /\ fs_data' = Release([fs_data EXCEPT ![new] = d], new, file)
          /\ fs_path' = new
  /\ clock' = clock + 1
  /\ fs_mtime' = clock + 1
  /\ hist' = ShrunkHist(NewFileHist)
  /\ UNCHANGED <<argVars, pc, out, file, tailVars, followVars>>

EnvAppend ==
  /\ clock < MaxEnvOps
  /\ fs_path # 0
  /\ \E c \in Chunks :
       /\ Len(fs_data[fs_path]) + Len(c) <= MaxFileLen
       /\ fs_data' = [fs_data EXCEPT ![fs_path] = @ \o c]
  /\ clock' = clock + 1
  /\ fs_mtime' = clock + 1
  /\ UNCHANGED <<fs_path, argVars, pc, out, file, tailVars, followVars, hist>>

\* the file is cut in place to a smaller size
EnvTruncate ==
  /\ clock < MaxEnvOps
  /\ fs_path # 0
  /\ \E n \in 0..(Len(fs_data[fs_path]) - 1) :
       /\ fs_data' = [fs_data EXCEPT ![fs_path] = SubSeq(@, 1, n)]
       /\ hist' = ShrunkHist([hist EXCEPT !.append_only = FALSE,
                                          !.kept = Min(@, n)])
  /\ clock' = clock + 1
  /\ fs_mtime' = clock + 1
  /\ UNCHANGED <<fs_path, argVars, pc, out, file, tailVars, followVars>>

----------------------------------------------------------------------------
(* SpecMain: main, from the existence check to the call of follow_file.    *)

\* messages on standard output
Waiting == <<"Waiting for file to appear...">>
Retrying == <<"Retrying in 1 second...">>
Following == <<"Following file. Press Ctrl+C to stop.">>

MainCheck ==
  /\ pc = "m_check"
  /\ pc' = IF fs_path = 0 /\ ~retry_mode THEN "exit1"
           ELSE IF retry_mode THEN "m_wait" ELSE "m_tail"
  /\ hist' = [hist EXCEPT !.absent_at_start = (fs_path = 0)]
  /\ UNCHANGED <<fsVars, argVars, out, file, tailVars, followVars>>

\* a wait loop that is left after one message, file or no file
MainWaitOnce ==
  /\ pc = "m_wait"
  /\ Len(out) < MaxOut
  /\ IF fs_path = 0 /\ out = <<>>
     THEN out' = Append(out, Waiting) /\ pc' = "m_wait"
     ELSE pc' = "m_tail" /\ UNCHANGED out
  /\ UNCHANGED <<fsVars, argVars, file, tailVars, followVars, hist>>

MainWait ==
  /\ pc = "m_wait"
  /\ IF fs_path = 0
     THEN /\ Len(out) < MaxOut
          /\ out' = Append(out, Waiting)
          /\ pc' = "m_wait"
     ELSE pc' = "m_tail" /\ UNCHANGED out
  /\ UNCHANGED <<fsVars, argVars, file, tailVars, followVars, hist>>

MainTail ==
  /\ pc = "m_tail"
  /\ LET r == IF fs_path = 0 THEN [ok |-> FALSE, lines |-> <<>>]
              ELSE TailLoop(fs_data[fs_path], 0, <<>>, num_lines)
     IN IF r.ok
        THEN /\ out' = out \o r.lines
             /\ hist' = [hist EXCEPT !.tail_printed = TRUE,
                                     !.tail_size = Len(fs_data[fs_path])]
             /\ pc' = "m_after"
        ELSE /\ hist' = [hist EXCEPT !.tail_failed = TRUE]
             /\ IF retry_mode
                THEN out' = Append(out, Retrying) /\ pc' = "m_after"
                ELSE pc' = "exit1" /\ UNCHANGED out
  /\ UNCHANGED <<fsVars, argVars, file, tailVars, followVars>>

MainAfter ==
  /\ pc = "m_after"
  /\ IF follow_mode
     THEN out' = Append(out, Following) /\ pc' = "m_follow"
     ELSE pc' = "exit0" /\ UNCHANGED out
  /\ UNCHANGED <<fsVars, argVars, file, tailVars, followVars, hist>>

InitMain ==
  /\ fs_path \in {0, 1}
  /\ fs_data \in {[NoData EXCEPT ![1] = d] : d \in NewFiles}
  /\ fs_mtime = 0
  /\ clock = 0
  /\ num_lines \in 0..MaxLines
  /\ retry_mode \in BOOLEAN
  /\ follow_mode \in BOOLEAN
  /\ pc = "m_check"
  /\ out = <<>>
  /\ file = 0
  /\ rd = 0
  /\ lines = <<>>
  /\ pos = 0
  /\ last_modified = 0
  /\ hist = HistInit

NextMain ==
  \/ MainCheck
  \/ MainWait
  \/ MainTail
  \/ MainAfter
  \/ EnvCreate
  \/ EnvRemove

SpecMain == InitMain /\ [][NextMain]_vars

----------------------------------------------------------------------------
(* SpecFollow: follow_file.  One step per system call, so that the file    *)
(* can change between the metadata query, the read and the second query.   *)

Rotation == <<"--- Log file rotation detected ---">>
Truncated == <<"--- File was truncated or rotated ---">>
OpenRetry == <<"Error opening file. Retrying...">>
AccessRetry == <<"File access error. Retrying...">>

\* SystemTime::now(): an instant that is no file's modification time
NowStamp == -1

NormalizeFollow(buffer) ==
  IF EndsWith(buffer, <<CR, LF>>) THEN Append(Pop(Pop(buffer)), LF) ELSE buffer

PathSize == Len(fs_data[fs_path])

\* File::open at the start; on Err under retry_mode the function calls itself
FollowOpen ==
  /\ pc = "f_open"
  /\ IF fs_path # 0
     THEN /\ pc' = "f_seek_end"
          /\ file' = fs_path
          /\ hist' = [hist EXCEPT !.slept = 0]
          /\ UNCHANGED out
     ELSE IF retry_mode
     THEN /\ Len(out) < MaxOut
          /\ out' = Append(out, OpenRetry)
          /\ pc' = "f_open"
          /\ hist' = [hist EXCEPT !.slept = 1000]
          /\ UNCHANGED file
     ELSE /\ pc' = "f_err"
          /\ hist' = [hist EXCEPT !.err = "open", !.slept = 0]
          /\ UNCHANGED <<file, out>>
  /\ UNCHANGED <<fsVars, argVars, tailVars, followVars>>

\* the cursor put at the start of the file instead of its end
FollowSeekStart ==
  /\ pc = "f_seek_end"
  /\ pos' = 0
  /\ hist' = [hist EXCEPT !.start = Len(fs_data[file]),
                          !.kept = IF file = fs_path THEN Len(fs_data[file]) ELSE 0,
                          !.slept = 0]
  /\ pc' = "f_init_meta"
  /\ UNCHANGED <<fsVars, argVars, out, file, tailVars, last_modified>>

FollowSeekEnd ==
  /\ pc = "f_seek_end"
  /\ pos' = Len(fs_data[file])
  /\ hist' = [hist EXCEPT !.start = Len(fs_data[file]),
                          !.kept = IF file = fs_path THEN Len(fs_data[file]) ELSE 0,
                          !.slept = 0]
  /\ pc' = "f_init_meta"
  /\ UNCHANGED <<fsVars, argVars, out, file, tailVars, last_modified>>

FollowInitMeta ==
  /\ pc = "f_init_meta"
  /\ last_modified' = IF fs_path # 0 THEN fs_mtime ELSE NowStamp
  /\ pc' = "f_poll"
  /\ hist' = [hist EXCEPT !.slept = 0]
  /\ UNCHANGED <<fsVars, argVars, out, file, tailVars, pos>>

\* a rotation test that does not look at the modification time
FollowPollAnyShrink ==
  /\ pc = "f_poll"
  /\ IF fs_path = 0
     THEN IF retry_mode
          THEN /\ Len(out) < MaxOut
               /\ out' = Append(out, AccessRetry)
               /\ pc' = "f_poll"
               /\ hist' = [hist EXCEPT !.slept = 1000, !.rotated_cycle = FALSE]
               /\ UNCHANGED last_modified
          ELSE /\ pc' = "f_err"
               /\ hist' = [hist EXCEPT !.err = "metadata", !.slept = 0,
                                       !.rotated_cycle = FALSE]
               /\ UNCHANGED <<last_modified, out>>
     ELSE LET rotated == PathSize < pos
              shrunk == hist.last_size >= 0 /\ PathSize < hist.last_size
          IN /\ last_modified' = fs_mtime
             /\ IF rotated
                THEN /\ Len(out) < MaxOut
                     /\ out' = Append(out, Rotation)
                     /\ pc' = "f_reopen"
                     /\ hist' = [hist EXCEPT !.last_size = PathSize,
                                             !.noticed = TRUE,
                                             !.shrink_pending = FALSE,
                                             !.slept = 0,
                                             !.rotated_cycle = TRUE]
                ELSE /\ pc' = "f_read"
                     /\ hist' = [hist EXCEPT !.last_size = PathSize,
                                             !.shrink_pending = @ \/ shrunk,
                                             !.slept = 0,
                                             !.rotated_cycle = FALSE]
                     /\ UNCHANGED out
  /\ UNCHANGED <<fsVars, argVars, file, tailVars, pos>>

\* the last-seen modification time forgotten when the metadata query is retried
FollowPollRetryForgets ==
  /\ pc = "f_poll"
  /\ IF fs_path = 0
     THEN IF retry_mode
          THEN /\ Len(out) < MaxOut
               /\ out' = Append(out, AccessRetry)
               /\ pc' = "f_poll"
               /\ hist' = [hist EXCEPT !.slept = 1000, !.rotated_cycle = FALSE]
               /\ last_modified' = NowStamp
          ELSE /\ pc' = "f_err"
               /\ hist' = [hist EXCEPT !.err = "metadata", !.slept = 0,
                                       !.rotated_cycle = FALSE]
               /\ UNCHANGED <<last_modified, out>>
     ELSE LET rotated == fs_mtime # last_modified /\ PathSize < pos
              shrunk == hist.last_size >= 0 /\ PathSize < hist.last_size
          IN /\ last_modified' = fs_mtime
             /\ IF rotated
                THEN /\ Len(out) < MaxOut
                     /\ out' = Append(out, Rotation)
                     /\ pc' = "f_reopen"
                     /\ hist' = [hist EXCEPT !.last_size = PathSize,
                                             !.noticed = TRUE,
                                             !.shrink_pending = FALSE,
                                             !.slept = 0,
                                             !.rotated_cycle = TRUE]
                ELSE /\ pc' = "f_read"
                     /\ hist' = [hist EXCEPT !.last_size = PathSize,
                                             !.shrink_pending = @ \/ shrunk,
                                             !.slept = 0,
                                             !.rotated_cycle = FALSE]
                     /\ UNCHANGED out
  /\ UNCHANGED <<fsVars, argVars, file, tailVars, pos>>

\* the metadata query at the top of the loop.  last_modified is assigned
\* here also when rotation is detected: nothing reads it before line 207.
FollowPoll ==
  /\ pc = "f_poll"
  /\ IF fs_path = 0
     THEN IF retry_mode
          THEN /\ Len(out) < MaxOut
               /\ out' = Append(out, AccessRetry)
               /\ pc' = "f_poll"
               /\ hist' = [hist EXCEPT !.slept = 1000, !.rotated_cycle = FALSE]
               /\ UNCHANGED last_modified
          ELSE /\ pc' = "f_err"
               /\ hist' = [hist EXCEPT !.err = "metadata", !.slept = 0,
                                       !.rotated_cycle = FALSE]
               /\ UNCHANGED <<last_modified, out>>
     ELSE LET rotated == fs_mtime # last_modified /\ PathSize < pos
              shrunk == hist.last_size >= 0 /\ PathSize < hist.last_size
          IN /\ last_modified' = fs_mtime
             /\ IF rotated
                THEN /\ Len(out) < MaxOut
                     /\ out' = Append(out, Rotation)
                     /\ pc' = "f_reopen"
                     /\ hist' = [hist EXCEPT !.last_size = PathSize,
                                             !.noticed = TRUE,
                                             !.shrink_pending = FALSE,
                                             !.slept = 0,
                                             !.rotated_cycle = TRUE]
                ELSE /\ pc' = "f_read"
                     /\ hist' = [hist EXCEPT !.last_size = PathSize,
                                             !.shrink_pending = @ \/ shrunk,
                                             !.slept = 0,
                                             !.rotated_cycle = FALSE]
                     /\ UNCHANGED out
  /\ UNCHANGED <<fsVars, argVars, file, tailVars, pos>>

\* the cursor left where it was when the file is reopened
FollowReopenKeepsPos ==
  /\ pc = "f_reopen"
  /\ IF fs_path = 0
     THEN /\ pc' = "f_err"
          /\ hist' = [hist EXCEPT !.err = "reopen", !.slept = 0]
          /\ UNCHANGED <<file, pos>>
     ELSE /\ file' = fs_path
          /\ pos' = pos
          /\ pc' = "f_read"
          /\ hist' = [hist EXCEPT !.slept = 0]
  /\ fs_data' = Release(fs_data, fs_path, file')
  /\ UNCHANGED <<fs_path, fs_mtime, clock, argVars, out, tailVars, last_modified>>

\* drop(file); File::open(filename)?; pos = 0
FollowReopen ==
  /\ pc = "f_reopen"
  /\ IF fs_path = 0
     THEN /\ pc' = "f_err"
          /\ hist' = [hist EXCEPT !.err = "reopen", !.slept = 0]
          /\ UNCHANGED <<file, pos>>
     ELSE /\ file' = fs_path
          /\ pos' = 0
          /\ pc' = "f_read"
          /\ hist' = [hist EXCEPT !.slept = 0]
  /\ fs_data' = Release(fs_data, fs_path, file')
  /\ UNCHANGED <<fs_path, fs_mtime, clock, argVars, out, tailVars, last_modified>>

\* a cursor advanced one byte too far
FollowReadSkipsByte ==
  /\ pc = "f_read"
  /\ LET data == fs_data[file]
         raw == RawLine(data, pos)
     IN IF ReadFails(data, pos)
        THEN /\ pc' = "f_err"
             /\ hist' = [hist EXCEPT !.err = "read", !.slept = 0]
             /\ UNCHANGED <<out, pos>>
        ELSE IF Len(raw) > 0
        THEN /\ Len(out) < MaxOut
             /\ out' = Append(out, NormalizeFollow(raw))
             /\ pos' = pos + Len(raw) + 1
             /\ pc' = "f_poll"
             /\ hist' = [hist EXCEPT !.slept = 0,
                                     !.reemitted = @ \/ (file = fs_path /\ pos < hist.kept)]
        ELSE /\ pc' = "f_sleep"
             /\ hist' = [hist EXCEPT !.slept = 0]
             /\ UNCHANGED <<out, pos>>
  /\ UNCHANGED <<fsVars, argVars, file, tailVars, last_modified>>

\* the cursor advanced by the length of the text printed, not of the bytes read
FollowReadNormalizedLen ==
  /\ pc = "f_read"
  /\ LET data == fs_data[file]
         raw == RawLine(data, pos)
     IN IF ReadFails(data, pos)
        THEN /\ pc' = "f_err"
             /\ hist' = [hist EXCEPT !.err = "read", !.slept = 0]
             /\ UNCHANGED <<out, pos>>
        ELSE IF Len(raw) > 0
        THEN /\ Len(out) < MaxOut
             /\ out' = Append(out, NormalizeFollow(raw))
             /\ pos' = pos + Len(NormalizeFollow(raw))
             /\ pc' = "f_poll"
             /\ hist' = [hist EXCEPT !.slept = 0,
                                     !.reemitted = @ \/ (file = fs_path /\ pos < hist.kept)]
        ELSE /\ pc' = "f_sleep"
             /\ hist' = [hist EXCEPT !.slept = 0]
             /\ UNCHANGED <<out, pos>>
  /\ UNCHANGED <<fsVars, argVars, file, tailVars, last_modified>>

\* the 100 ms sleep taken after an emission too
FollowReadThenSleep ==
  /\ pc = "f_read"
  /\ LET data == fs_data[file]
         raw == RawLine(data, pos)
     IN IF ReadFails(data, pos)
        THEN /\ pc' = "f_err"
             /\ hist' = [hist EXCEPT !.err = "read", !.slept = 0]
             /\ UNCHANGED <<out, pos>>
        ELSE IF Len(raw) > 0
        THEN /\ Len(out) < MaxOut
             /\ out' = Append(out, NormalizeFollow(raw))
             /\ pos' = pos + Len(raw)
             /\ pc' = "f_sleep"
             /\ hist' = [hist EXCEPT !.slept = 0,
                                     !.reemitted = @ \/ (file = fs_path /\ pos < hist.kept)]
        ELSE /\ pc' = "f_sleep"
             /\ hist' = [hist EXCEPT !.slept = 0]
             /\ UNCHANGED <<out, pos>>
  /\ UNCHANGED <<fsVars, argVars, file, tailVars, last_modified>>

\* seek to pos, read_line, print
FollowRead ==
  /\ pc = "f_read"
  /\ LET data == fs_data[file]
         raw == RawLine(data, pos)
     IN IF ReadFails(data, pos)
        THEN /\ pc' = "f_err"
             /\ hist' = [hist EXCEPT !.err = "read", !.slept = 0]
             /\ UNCHANGED <<out, pos>>
        ELSE IF Len(raw) > 0
        THEN /\ Len(out) < MaxOut
             /\ out' = Append(out, NormalizeFollow(raw))
             /\ pos' = pos + Len(raw)
             /\ pc' = "f_poll"
             /\ hist' = [hist EXCEPT !.slept = 0,
                                     !.reemitted = @ \/ (file = fs_path /\ pos < hist.kept)]
        ELSE /\ pc' = "f_sleep"
             /\ hist' = [hist EXCEPT !.slept = 0]
             /\ UNCHANGED <<out, pos>>
  /\ UNCHANGED <<fsVars, argVars, file, tailVars, last_modified>>

\* the size test after the sleep taken also when the size equals the cursor
FollowSleepNotStrict ==
  /\ pc = "f_sleep"
  /\ IF fs_path = 0
     THEN /\ pc' = "f_err"
          /\ hist' = [hist EXCEPT !.err = "metadata_sleep", !.slept = 100]
          /\ UNCHANGED <<out, pos>>
     ELSE IF PathSize <= pos
     THEN /\ Len(out) < MaxOut
          /\ out' = Append(out, Truncated)
          /\ pos' = 0
          /\ pc' = "f_poll"
          /\ hist' = [hist EXCEPT !.last_size = PathSize,
                                  !.noticed = TRUE,
                                  !.shrink_pending = FALSE,
                                  !.slept = 100]
     ELSE /\ pc' = "f_poll"
          /\ hist' = [hist EXCEPT !.last_size = PathSize,
                                  !.shrink_pending = @ \/ PathSize < hist.last_size,
                                  !.slept = 100]
          /\ UNCHANGED <<out, pos>>
  /\ UNCHANGED <<fsVars, argVars, file, tailVars, last_modified>>

\* nothing was read: sleep 100 ms, then fs::metadata(filename)? and the size test
FollowSleep ==
  /\ pc = "f_sleep"
  /\ IF fs_path = 0
     THEN /\ pc' = "f_err"
          /\ hist' = [hist EXCEPT !.err = "metadata_sleep", !.slept = 100]
          /\ UNCHANGED <<out, pos>>
     ELSE IF PathSize < pos
     THEN /\ Len(out) < MaxOut
          /\ out' = Append(out, Truncated)
          /\ pos' = 0
          /\ pc' = "f_poll"
          /\ hist' = [hist EXCEPT !.last_size = PathSize,
                                  !.noticed = TRUE,
                                  !.shrink_pending = FALSE,
                                  !.slept = 100]
     ELSE /\ pc' = "f_poll"
          /\ hist' = [hist EXCEPT !.last_size = PathSize,
                                  !.shrink_pending = @ \/ PathSize < hist.last_size,
                                  !.slept = 100]
          /\ UNCHANGED <<out, pos>>
  /\ UNCHANGED <<fsVars, argVars, file, tailVars, last_modified>>

InitFollow ==
  /\ fs_path \in {0, 1}
  /\ fs_data \in {[NoData EXCEPT ![1] = d] : d \in NewFiles}
  /\ fs_mtime = 0
  /\ clock = 0
  /\ num_lines = 0
  /\ retry_mode \in BOOLEAN
  /\ follow_mode = TRUE
  /\ pc = "f_open"
  /\ out = <<>>
  /\ file = 0
  /\ rd = 0
  /\ lines = <<>>
  /\ pos = 0
  /\ last_modified = 0
  /\ hist = HistInit

NextFollow ==
  \/ FollowOpen
  \/ FollowSeekEnd
  \/ FollowInitMeta
  \/ FollowPoll
  \/ FollowReopen
  \/ FollowRead
  \/ FollowSleep
  \/ EnvCreate
  \/ EnvRemove
  \/ EnvReplace
  \/ EnvAppend
  \/ EnvTruncate

SpecFollow == InitFollow /\ [][NextFollow]_vars

----------------------------------------------------------------------------
(* SpecRun: the whole program, main handing over to follow_file.           *)

\* follow_file(filename, retry_mode)? at the end of main
MainFollow ==
  /\ pc = "m_follow"
  /\ pc' = "f_open"
  /\ UNCHANGED <<fsVars, argVars, out, file, tailVars, followVars, hist>>

NextRun ==
  \/ MainCheck
  \/ MainWait
  \/ MainTail
  \/ MainAfter
  \/ MainFollow
  \/ FollowOpen
  \/ FollowSeekEnd
  \/ FollowInitMeta
  \/ FollowPoll
  \/ FollowReopen
  \/ FollowRead
  \/ FollowSleep
  \/ EnvCreate
  \/ EnvRemove
  \/ EnvReplace
  \/ EnvAppend
  \/ EnvTruncate

SpecRun == InitMain /\ [][NextRun]_vars

----------------------------------------------------------------------------
(* Properties of tail_file (SpecTail) *)

\* the lines of a file: each runs to its LF, the last one to end of file
RECURSIVE SplitLines(_)
SplitLines(data) ==
  IF data = <<>> THEN <<>>
  ELSE IF \E i \in 1..Len(data) : data[i] = LF
  THEN LET k == CHOOSE i \in 1..Len(data) : data[i] = LF /\ \A j \in 1..(i - 1) : data[j] # LF
       IN <<SubSeq(data, 1, k)>> \o SplitLines(SubSeq(data, k + 1, Len(data)))
  ELSE <<data>>

\* a line without its terminator (LF, or CR LF)
LineText(l) ==
  IF l # <<>> /\ l[Len(l)] = LF
  THEN IF Len(l) >= 2 /\ l[Len(l) - 1] = CR THEN SubSeq(l, 1, Len(l) - 2)
       ELSE SubSeq(l, 1, Len(l) - 1)
  ELSE l

LastLines(ls, k) == SubSeq(ls, Len(ls) - k + 1, Len(ls))

ExpectedTail(data, n) ==
  LET ls == SplitLines(data)
      m == Min(n, Len(ls))
      last == LastLines(ls, m)
  IN [i \in 1..m |-> LineText(last[i]) \o <<LF>>]

OneLinefeedAtEnd(l) ==
  /\ l # <<>>
  /\ l[Len(l)] = LF
  /\ \A i \in 1..(Len(l) - 1) : l[i] # LF

\* C1: when tail_file returns Ok its output is exactly the last
\* min(num_lines, L) lines of the file, in order, each ending in one LF
\* (CR LF rewritten to LF, LF kept, a missing last terminator added):
\* nothing for num_lines = 0 or an empty file, every line for num_lines >= L.
C1_TailIsLastLines ==
  pc = "t_done" =>
    /\ out = ExpectedTail(fs_data[file], num_lines)
    /\ Len(out) = Min(num_lines, Len(SplitLines(fs_data[file])))
    /\ \A i \in 1..Len(out) : OneLinefeedAtEnd(out[i])
    /\ (num_lines = 0 \/ fs_data[file] = <<>>) => out = <<>>

\* a file of more lines than asked for, with a CR LF line and a last line
\* without terminator, both printed
C1_Witness ==
  /\ pc = "t_done"
  /\ num_lines = 2
  /\ fs_data[file] = <<LF, CR, LF, "a">>
  /\ out = <<<<LF>>, <<"a", LF>>>>

\* C8: tail_file writes nothing before the whole file is read: output
\* exists only once it has returned Ok, and a failed tail_file (open or
\* read error at any line) has written none of the file's lines.
C8_AllOrNothing ==
  /\ pc = "t_err" => out = <<>>
  /\ pc \in {"t_open", "t_read", "t_print"} => out = <<>>

\* a read error after lines were read and buffered
C8_Witness ==
  /\ pc = "t_err"
  /\ rd > 0
  /\ lines # <<>>
  /\ out = <<>>

----------------------------------------------------------------------------
(* Properties of main (SpecMain) *)

IsFileLine(piece) == piece \notin {Waiting, Retrying, Following}

\* C6: no file at the first check: without --retry the process exits with
\* status 1 having printed nothing; with --retry each poll that finds no
\* file prints the waiting message and polls again, nothing but waiting
\* messages is printed while waiting, and the loop is left only when the
\* file exists, and then for the initial tail.
C6_AbsentAtStart ==
  /\ [](hist.absent_at_start /\ ~retry_mode => pc = "exit1" /\ out = <<>>)
  /\ [](pc = "m_wait" => retry_mode /\ \A i \in 1..Len(out) : out[i] = Waiting)
  /\ [][pc = "m_wait" /\ fs_path = 0 /\ <<pc, out>>' # <<pc, out>>
         => pc' = "m_wait" /\ out' = Append(out, Waiting)]_vars
  /\ [][pc = "m_wait" /\ pc' # "m_wait"
         => fs_path # 0 /\ pc' = "m_tail" /\ out' = out]_vars

\* the file appeared after two waiting messages and its tail was printed
C6_Witness ==
  /\ retry_mode
  /\ hist.absent_at_start
  /\ hist.tail_printed
  /\ Len(out) >= 3
  /\ out[1] = Waiting
  /\ out[2] = Waiting
  /\ IsFileLine(out[3])

\* C7 as claimed: under --retry a failed initial tail is attempted again, so
\* the program never goes past the initial tail without having printed it;
\* without --retry the failure ends the process with a non-zero status.
C7_RetryReattemptsTail ==
  /\ retry_mode /\ pc \in {"m_after", "m_follow", "exit0"} => hist.tail_printed
  /\ ~retry_mode /\ hist.tail_failed => pc = "exit1"

----------------------------------------------------------------------------
(* Properties of follow_file (SpecFollow) *)

Notices == {Rotation, Truncated, OpenRetry, AccessRetry}
IsText(piece) == piece \notin Notices
TextOut == SelectSeq(out, IsText)
InLoop == pc \in {"f_poll", "f_reopen", "f_read", "f_sleep"}

IsComplete(l) == l # <<>> /\ l[Len(l)] = LF

\* the complete lines written after the cursor was put at the end of the file
AppendedLines ==
  LET data == fs_data[file]
      ls == SelectSeq(SplitLines(SubSeq(data, hist.start + 1, Len(data))), IsComplete)
  IN [i \in 1..Len(ls) |-> LineText(ls[i]) \o <<LF>>]

\* C2 as claimed: while the file is only appended to, what follow_file has
\* printed is a prefix of the complete lines appended, each once and in
\* order; a line whose terminator has not arrived yet produces no output.
C2_OnlyCompleteLinesOnce ==
  hist.append_only /\ InLoop =>
    /\ Len(TextOut) <= Len(AppendedLines)
    /\ \A i \in 1..Len(TextOut) : TextOut[i] = AppendedLines[i]

\* C3 as claimed: a metadata query that finds the file smaller than the
\* query before did is answered, before the next iteration polls, by a
\* notice and a cursor at 0.  (Stated for a handle on the file at the path,
\* which leaves replaced files to C4.)
C3_ShrinkIsNoticed == ~(pc = "f_poll" /\ hist.shrink_pending /\ file = fs_path)

\* C4 as claimed: once a notice is printed for a replaced file, whatever is
\* printed (until the path is given yet another file) is read from the
\* file that is now at the path.
C4_AfterNoticeNewFileOnly ==
  [][pc = "f_read" /\ Len(out') > Len(out) /\ hist.noticed => file = fs_path]_vars

\* C5 as claimed: under retry_mode no open or metadata failure makes
\* follow_file return; without it nothing is retried.
C5_RetrySurvivesFailures ==
  /\ retry_mode => hist.err \notin {"open", "reopen", "metadata", "metadata_sleep"}
  /\ ~retry_mode => \A i \in 1..Len(out) : out[i] \notin {OpenRetry, AccessRetry}

\* C9 as claimed: the loop is left only by a metadata failure without
\* retry_mode.
C9_OnlyMetadataEndsLoop ==
  pc = "f_err" /\ hist.err # "open" =>
    ~retry_mode /\ hist.err \in {"metadata", "metadata_sleep"}

\* C10 as claimed: in the loop the cursor is between 0 and the current size
\* of the file at the path.
C10_CursorWithinCurrentSize ==
  InLoop /\ fs_path # 0 => 0 <= pos /\ pos <= PathSize

\* C10, amended: the cursor is never negative, and it is at most the size
\* of the file at the path for as long as that file has only been appended
\* to (never truncated, replaced or removed) since follow_file opened it.
C10_CursorWithinAppendOnlyFile ==
  /\ 0 <= pos
  /\ hist.append_only /\ fs_path # 0 => pos <= PathSize

\* the cursor has moved past its start and has not reached the end yet
C10_Witness ==
  /\ hist.append_only
  /\ pc = "f_poll"
  /\ pos > hist.start
  /\ pos < PathSize

\* a step of the program (the file system's steps change neither)
ProgStep == pc' # pc \/ out' # out

LastOut == out[Len(out)]

\* C11: in the loop the cursor changes in two ways only: the read that
\* prints text moves it up, and a rotation or truncation puts it at 0, each
\* such reset with one notice (printed by the reset itself, or the last
\* thing printed before the reopen); it never goes down to a value other
\* than 0; and a notice is printed only when the size just observed is
\* below the cursor, hence never with the cursor at 0.
C11_CursorUpOrReset ==
  /\ [][InLoop /\ pos' # pos =>
          \/ /\ pc = "f_read"
             /\ pos' > pos
             /\ Len(out') = Len(out) + 1
             /\ IsText(out'[Len(out')])
          \/ /\ pc = "f_sleep"
             /\ pos' = 0
             /\ out' = Append(out, Truncated)
          \/ /\ pc = "f_reopen"
             /\ pos' = 0
             /\ out' = out
             /\ out # <<>> /\ LastOut = Rotation]_vars
  /\ [][InLoop /\ Len(out') > Len(out) /\ out'[Len(out')] \in {Rotation, Truncated} =>
          /\ fs_path # 0
          /\ PathSize < pos
          /\ pos > 0
          /\ out' = Append(out, out'[Len(out')])
          /\ pos' = 0 \/ pc' = "f_reopen"]_vars

\* text was printed, then the file was cut and the cursor went back to 0
C11_Witness ==
  /\ pc = "f_poll"
  /\ pos = 0
  /\ Len(out) >= 2
  /\ LastOut = Truncated
  /\ IsText(out[1])

\* C12: a poll whose metadata query succeeds takes the rotation branch
\* (notice, then reopen by path with the cursor at 0) exactly when the
\* modification time differs from last_modified and the size is below the
\* cursor; either way last_modified becomes the time just observed.
C12_RotationExactlyWhen ==
  /\ [][pc = "f_poll" /\ fs_path # 0 /\ ProgStep =>
          /\ last_modified' = fs_mtime
          /\ pc' \in {"f_reopen", "f_read"}
          /\ pc' = "f_reopen" <=> (fs_mtime # last_modified /\ PathSize < pos)
          /\ out' = IF pc' = "f_reopen" THEN Append(out, Rotation) ELSE out
          /\ pos' = pos /\ file' = file]_vars
  /\ [][pc = "f_reopen" /\ pc' = "f_read" =>
          file' = fs_path /\ pos' = 0 /\ last_modified' = last_modified]_vars

\* the rotation branch was taken and the new file is open at offset 0
C12_Witness ==
  /\ pc = "f_read"
  /\ hist.rotated_cycle
  /\ LastOut = Rotation
  /\ pos = 0
  /\ file = fs_path
  /\ last_modified = fs_mtime

----------------------------------------------------------------------------
(* Properties of the whole program (SpecRun) *)

RECURSIVE Flat(_)
Flat(ss) == IF ss = <<>> THEN <<>> ELSE Head(ss) \o Flat(Tail(ss))

NotCR(b) == b # CR
WithoutCR(bytes) == SelectSeq(bytes, NotCR)

\* what follow_file printed: the text after main's "Following" message
FollowText ==
  LET at == {i \in 1..Len(out) : out[i] = Following}
      from == IF at = {} THEN 0 ELSE CHOOSE i \in at : \A j \in at : j <= i
  IN SelectSeq(SubSeq(out, from + 1, Len(out)), IsText)

\* C13 as claimed: no byte that was in the file when follow mode began is
\* printed by the follow loop.
C13_NothingFromBeforeStart == ~hist.reemitted

\* C13, amended: the seek puts the cursor at the size of the file at that
\* instant; and for as long as the file is only appended to, the loop prints
\* no byte that was there at that instant, nothing the initial tail read,
\* and exactly the bytes from that boundary to the cursor (line endings
\* aside), the cursor being at the end of the file whenever the loop finds
\* nothing to read.
C13_FollowStartsAtEnd ==
  /\ [][pc = "f_seek_end" /\ ProgStep => pos' = Len(fs_data[file])]_vars
  /\ [](InLoop /\ hist.append_only =>
          /\ ~hist.reemitted
          /\ hist.start <= pos
          /\ hist.tail_printed => hist.tail_size <= hist.start
          /\ WithoutCR(Flat(FollowText))
               = WithoutCR(SubSeq(fs_data[file], hist.start + 1, pos)))
  /\ [][pc = "f_read" /\ pc' = "f_sleep" /\ hist.append_only
          => pos = Len(fs_data[file])]_vars

\* the tail was printed, the file grew before follow mode began and again
\* after, and the loop has printed from the boundary on
C13_Witness ==
  /\ InLoop
  /\ hist.append_only
  /\ hist.tail_printed
  /\ hist.tail_size > 0
  /\ hist.tail_size < hist.start
  /\ hist.start < pos

\* C14: an emission of the follow loop consumes the bytes from the cursor up
\* to and including the next linefeed (or to the end of the file), prints
\* them with a final CR LF rewritten to LF, and advances the cursor by the
\* number of bytes consumed, not printed; so the text printed from an
\* append-only file is, line endings aside, the file from the first cursor
\* to the current one, each byte once.
C14_CursorAdvancesByRawBytes ==
  /\ [][pc = "f_read" /\ out' # out =>
          LET data == fs_data[file]
              raw == SubSeq(data, pos + 1, pos')
              n == Len(raw)
          IN /\ pos < pos' /\ pos' <= Len(data)
             /\ \A i \in 1..(n - 1) : raw[i] # LF
             /\ pos' = Len(data) \/ raw[n] = LF
             /\ out' = Append(out, IF n >= 2 /\ raw[n - 1] = CR /\ raw[n] = LF
                                   THEN SubSeq(raw, 1, n - 2) \o <<LF>>
                                   ELSE raw)]_vars
  /\ [](InLoop /\ hist.append_only =>
          Len(WithoutCR(Flat(TextOut)))
            = Len(WithoutCR(SubSeq(fs_data[file], hist.start + 1, pos))))

\* a CR LF pair was consumed as two bytes and printed as one
C14_Witness ==
  /\ pc = "f_poll"
  /\ hist.append_only
  /\ pos = Len(fs_data[file])
  /\ pos - hist.start > Len(Flat(TextOut))
  /\ Len(TextOut) >= 1

\* C15: every piece of text printed in follow mode ends in exactly one
\* linefeed, as the lines of the initial tail do, and no carriage return of
\* the file is printed right before a linefeed.
C15_FollowNormalizesAsTail ==
  /\ \A i \in 1..Len(TextOut) : OneLinefeedAtEnd(TextOut[i])
  /\ LET printed == Flat(TextOut)
     IN \A i \in 1..(Len(printed) - 1) : ~(printed[i] = CR /\ printed[i + 1] = LF)

\* C16: an emission is followed by the next poll with no sleep; the 100 ms
\* sleep is taken only after a read that returned nothing; and an iteration
\* of the loop ends with the cursor advanced, with a sleep of 100 ms or 1 s,
\* or with an error.
C16_DrainBeforeWait ==
  /\ [][pc = "f_read" /\ out' # out => pc' = "f_poll" /\ hist'.slept = 0]_vars
  /\ [][pc' = "f_sleep" /\ pc # "f_sleep" =>
          /\ pc = "f_read"
          /\ out' = out /\ pos' = pos
          /\ pos >= Len(fs_data[file])]_vars
  /\ [][ProgStep /\ hist'.slept = 100 => pc = "f_sleep"]_vars
  /\ [][InLoop /\ ProgStep /\ pc' \in {"f_poll", "f_err"} =>
          \/ pos' > pos
          \/ hist'.slept \in {100, 1000}
          \/ pc' = "f_err"]_vars

\* two lines were printed one after the other, then the read found nothing
C16_Witness ==
  /\ pc = "f_sleep"
  /\ Len(out) = 2 /\ IsText(out[1]) /\ IsText(out[2])
  /\ IsComplete(out[1]) /\ IsComplete(out[2])
  /\ pos = hist.start + Len(Flat(out))

\* C17: a cycle of the follow loop that took the rotation branch reaches its
\* truncation check with the cursor at 0 and prints no truncation notice.
C17_OneNoticePerCycle ==
  /\ [][out' = Append(out, Truncated) => pc = "f_sleep" /\ ~hist.rotated_cycle]_vars
  /\ [](pc = "f_sleep" /\ hist.rotated_cycle => pos = 0)

\* a cycle printed the rotation notice, read nothing from the new file and
\* went through its truncation check
C17_Witness ==
  /\ pc = "f_poll"
  /\ hist.rotated_cycle
  /\ hist.slept = 100
  /\ out # <<>> /\ LastOut = Rotation

----------------------------------------------------------------------------
(* Properties of the line buffer of tail_file (SpecTail) *)

----------------------------------------------------------------------------
(* Properties of follow_file, continued (SpecFollow) *)

\* C19: with the retry flag set, an iteration whose metadata query fails
\* prints the retry message, sleeps one second and goes back to the query:
\* cursor, handle, last-seen modification time and the files are unchanged,
\* and nothing of the file is printed.
C19_RetriedPollChangesNothing ==
  [][pc = "f_poll" /\ fs_path = 0 /\ retry_mode /\ ProgStep =>
       /\ pos' = pos
       /\ file' = file
       /\ last_modified' = last_modified
       /\ fs_data' = fs_data
       /\ out' = Append(out, AccessRetry)
       /\ hist'.slept = 1000
       /\ pc' = "f_poll"]_vars

\* the retried query happened in the middle of a follow: text was printed
\* before it and the cursor is past the start
C19_Witness ==
  /\ pc = "f_poll"
  /\ retry_mode
  /\ fs_path = 0
  /\ hist.slept = 1000
  /\ Len(out) >= 2 /\ LastOut = AccessRetry /\ IsText(out[1])
  /\ pos > 0
  /\ last_modified > 0

\* C20: when the file at the path was truncated or replaced once, the follow
\* loop prints at most one rotation or truncation notice.
C20_OneShrinkOneNotice ==
  InLoop /\ hist.shrinks = 1 =>
    Cardinality({i \in 1..Len(out) : out[i] \in {Rotation, Truncated}}) <= 1

====
